---- MODULE Spec2Model ----
(***************************************************************************)
(* A model of gojekyll's Site: the exclusion policy, the URL and file-path *)
(* resolvers over Routes, the plugin hook dispatcher, the lazily           *)
(* initialized rendering manager and SetAbsoluteURL.                       *)
(*                                                                         *)
(* Strings are TLA+ strings; a path is handled character by character and  *)
(* component by component, as path/filepath does on a Unix build.          *)
(***************************************************************************)
EXTENDS Integers, Sequences, FiniteSets, TLC

VARIABLES
    Collections, \* Site.Collections: the named groups of documents
    Routes,     \* Site.Routes: URL path -> Document, output documents only
    docs,       \* Site.docs: every document, output or not, in load order
    cfg,        \* Site.cfg: Source, AbsoluteURL, Variables, Include, Exclude, Plugins
    drop,       \* Site.drop: nil until cached, then a dictionary
    renderer,   \* Site.renderer: NilManager, or the n-th manager renderers.New built
    renderOnce, \* Site.renderOnce: "fresh", "running" or "done"
    initErr,    \* the error the gated initialization ended with
    newCount,   \* how many times renderers.New was called
    hookRuns,   \* how many times the configuration hooks were dispatched
    invoked,    \* positions of cfg.Plugins whose callback the last dispatch invoked
    pc,         \* each caller's position
    observed,   \* what each returned caller saw: the manager and the error
    env,        \* the collaborators: which hook calls fail, whether renderers.New fails
    call        \* the last completed call of the query surface and its result

vars == <<Collections, Routes, docs, cfg, drop, renderer, renderOnce, initErr, newCount,
          hookRuns, invoked, pc, observed, env, call>>

\* a nil *renderers.Manager, a nil error, a nil map
NilManager == 0
NoErr == 0
NilDrop == [cached |-> FALSE, dict |-> <<>>]
NoEnv == [newFails |-> FALSE, hookFails |-> {}]

(***************************************************************************)
(* Bounds of the model.                                                    *)
(***************************************************************************)
MaxDocs == 3
MaxPatterns == 2
MaxPlugins == 3
MaxInitPlugins == 2
NumCallers == 2

(***************************************************************************)
(* path/filepath, on strings.                                              *)
(***************************************************************************)
Char(s, i) == SubSeq(s, i, i)

RECURSIVE SplitFrom(_, _, _, _)
SplitFrom(s, i, cur, acc) ==
    IF i > Len(s) THEN Append(acc, cur)
    ELSE IF Char(s, i) = "/" THEN SplitFrom(s, i + 1, "", Append(acc, cur))
    ELSE SplitFrom(s, i + 1, cur \o Char(s, i), acc)

\* the elements of s between its separators, empty ones included
Elements(s) == SplitFrom(s, 1, "", <<>>)

RECURSIVE JoinElements(_)
JoinElements(es) ==
    IF Len(es) = 0 THEN ""
    ELSE IF Len(es) = 1 THEN es[1]
    ELSE es[1] \o "/" \o JoinElements(Tail(es))

RECURSIVE CleanElements(_, _, _, _)
CleanElements(es, i, out, rooted) ==
    IF i > Len(es) THEN out
    ELSE LET e == es[i] IN
         IF e = "" \/ e = "." THEN CleanElements(es, i + 1, out, rooted)
         ELSE IF e = ".." THEN
              IF Len(out) > 0 /\ out[Len(out)] # ".."
                  THEN CleanElements(es, i + 1, SubSeq(out, 1, Len(out) - 1), rooted)
              ELSE IF rooted THEN CleanElements(es, i + 1, out, rooted)
              ELSE CleanElements(es, i + 1, Append(out, ".."), rooted)
         ELSE CleanElements(es, i + 1, Append(out, e), rooted)

\* filepath.Clean
Clean(path) ==
    IF path = "" THEN "."
    ELSE LET rooted == Char(path, 1) = "/"
             body == JoinElements(CleanElements(Elements(path), 1, <<>>, rooted))
         IN  IF rooted THEN "/" \o body
             ELSE IF body = "" THEN "." ELSE body

\* filepath.Join of two elements: empty elements are ignored, the rest is cleaned
Join(a, b) ==
    IF a = "" /\ b = "" THEN ""
    ELSE IF a = "" THEN Clean(b)
    ELSE IF b = "" THEN Clean(a)
    ELSE Clean(a \o "/" \o b)

\* filepath.Join of one element
Join1(a) == IF a = "" THEN "" ELSE Clean(a)

RECURSIVE LastSlash(_, _)
LastSlash(s, i) ==
    IF i = 0 THEN 0
    ELSE IF Char(s, i) = "/" THEN i
    ELSE LastSlash(s, i - 1)

\* filepath.Dir: everything up to the last separator, cleaned
Dir(path) == Clean(SubSeq(path, 1, LastSlash(path, Len(path))))

RECURSIVE StripSlashes(_)
StripSlashes(s) ==
    IF Len(s) > 0 /\ Char(s, Len(s)) = "/" THEN StripSlashes(SubSeq(s, 1, Len(s) - 1))
    ELSE s

\* filepath.Base
Base(path) ==
    IF path = "" THEN "."
    ELSE LET s == StripSlashes(path) IN
         IF s = "" THEN "/"
         ELSE SubSeq(s, LastSlash(s, Len(s)) + 1, Len(s))

RECURSIVE CommonPrefix(_, _, _)
CommonPrefix(b, t, k) ==
    IF k < Len(b) /\ k < Len(t) /\ b[k + 1] = t[k + 1] THEN CommonPrefix(b, t, k + 1)
    ELSE k

RelErr == "<rel error>"

\* filepath.Rel: targpath relative to basepath, or RelErr
Rel(basepath, targpath) ==
    LET base == Clean(basepath)
        targ == Clean(targpath)
        b    == IF base = "." THEN "" ELSE base
        bs   == Len(b) > 0 /\ Char(b, 1) = "/"
        ts   == Len(targ) > 0 /\ Char(targ, 1) = "/"
        be   == IF b = "" \/ b = "/" THEN <<>> ELSE Elements(IF bs THEN Tail(b) ELSE b)
        te   == IF targ = "/" THEN <<>> ELSE Elements(IF ts THEN Tail(targ) ELSE targ)
        k    == CommonPrefix(be, te, 0)
        ups  == [i \in 1..(Len(be) - k) |-> ".."]
        rest == SubSeq(te, k + 1, Len(te))
    IN  IF targ = base THEN "."
        ELSE IF bs # ts THEN RelErr
        ELSE IF k < Len(be) /\ be[k + 1] = ".." THEN RelErr
        ELSE JoinElements(ups \o rest)

\* utils.MustRel: Rel, or a panic
MustRelPanic == "<panic: Rel>"
MustRel(basepath, targpath) ==
    LET r == Rel(basepath, targpath) IN IF r = RelErr THEN MustRelPanic ELSE r

(***************************************************************************)
(* Configuration (config.Default, then the loaded site's settings).        *)
(***************************************************************************)
SourceDirs == {".", "/s"}
DefaultURL == ""
VariableKeys == {"url", "title"}

DefaultCfg ==
    [Source      |-> ".",
     AbsoluteURL |-> DefaultURL,
     Variables   |-> [k \in VariableKeys |-> IF k = "url" THEN DefaultURL ELSE "My Site"],
     Include     |-> {},
     Exclude     |-> {},
     Plugins     |-> <<>>]

NoCall == [op |-> "none"]

(***************************************************************************)
(* Exclusion policy.                                                       *)
(***************************************************************************)
\* a glob pattern against a name: * and ? do not cross a separator
RECURSIVE Match(_, _)
Match(pattern, name) ==
    IF pattern = "" THEN name = ""
    ELSE IF Head(pattern) = "*" THEN
         \/ Match(Tail(pattern), name)
         \/ name # "" /\ Head(name) # "/" /\ Match(pattern, Tail(name))
    ELSE IF name = "" THEN FALSE
    ELSE IF Head(pattern) = "?" THEN Head(name) # "/" /\ Match(Tail(pattern), Tail(name))
    ELSE Head(pattern) = Head(name) /\ Match(Tail(pattern), Tail(name))

\* utils.MatchList: some pattern of the list matches the name
MatchList(patterns, name) == \E p \in patterns : Match(p, name)

\* excludeFileRE = `^[#~]|^\..|~$`
excludeFileRE(base) ==
    \/ Len(base) >= 1 /\ Char(base, 1) \in {"#", "~"}
    \/ Len(base) >= 2 /\ Char(base, 1) = "."
    \/ Len(base) >= 1 /\ Char(base, Len(base)) = "~"

\* a plausible slip: the exclude list is consulted before the include list
RECURSIVE ExcludeExcludeFirst(_)
ExcludeExcludeFirst(siteRel) ==
    IF siteRel = "." THEN FALSE
    ELSE LET dir  == Dir(siteRel)
             base == Base(siteRel)
         IN  IF MatchList(cfg.Exclude, siteRel) THEN TRUE
             ELSE IF MatchList(cfg.Include, siteRel) THEN FALSE
             ELSE IF dir # "." /\ Char(base, 1) = "_" THEN TRUE
             ELSE IF excludeFileRE(base) THEN TRUE
             ELSE ExcludeExcludeFirst(dir)

\* a plausible slip: the junk-file test is made on the first level only
RECURSIVE ExcludeJunkLeafOnly(_, _)
ExcludeJunkLeafOnly(siteRel, leaf) ==
    IF siteRel = "." THEN FALSE
    ELSE LET dir  == Dir(siteRel)
             base == Base(siteRel)
         IN  IF MatchList(cfg.Include, siteRel) THEN FALSE
             ELSE IF MatchList(cfg.Exclude, siteRel) THEN TRUE
             ELSE IF dir # "." /\ Char(base, 1) = "_" THEN TRUE
             ELSE IF leaf /\ excludeFileRE(base) THEN TRUE
             ELSE ExcludeJunkLeafOnly(dir, FALSE)

ExcludeJunkLeaf(siteRel) == ExcludeJunkLeafOnly(siteRel, TRUE)

\* a plausible slip: the underscore rule applies at the top level too
RECURSIVE ExcludeUnderscoreAnywhere(_)
ExcludeUnderscoreAnywhere(siteRel) ==
    IF siteRel = "." THEN FALSE
    ELSE LET dir  == Dir(siteRel)
             base == Base(siteRel)
         IN  IF MatchList(cfg.Include, siteRel) THEN FALSE
             ELSE IF MatchList(cfg.Exclude, siteRel) THEN TRUE
             ELSE IF Char(base, 1) = "_" THEN TRUE
             ELSE IF excludeFileRE(base) THEN TRUE
             ELSE ExcludeUnderscoreAnywhere(dir)

\* Site.Exclude: the loop over siteRel and its parents
RECURSIVE ExcludeLoop(_)
ExcludeLoop(siteRel) ==
    IF siteRel = "." THEN FALSE
    ELSE LET dir  == Dir(siteRel)
             base == Base(siteRel)
         IN  IF MatchList(cfg.Include, siteRel) THEN FALSE
             ELSE IF MatchList(cfg.Exclude, siteRel) THEN TRUE
             ELSE IF dir # "." /\ Char(base, 1) = "_" THEN TRUE
             ELSE IF excludeFileRE(base) THEN TRUE
             ELSE ExcludeLoop(dir)

Exclude(siteRel) == ExcludeLoop(siteRel)

\* the inputs: site-relative paths, normalized, and the configured pattern lists
ExcludePaths ==
    {"_posts", "_posts/a.md", "sub/_drafts", "sub/_drafts/x.md", ".git/config",
     ".htaccess", "a/#b#", "a~", "sub/a.md", "a/.x/b", "~a/b", "index.md",
     "_x~", "a/b_c", "sub/_d/.e", "_posts/_x/y"}
IncludePatterns == {".htaccess", ".git/config", "sub/_drafts", "*.md", "sub/*", "_*"}
ExcludePatterns == {"sub", "*.md", ".htaccess", "_posts", "a"}

InitExclude ==
    /\ \E inc \in SUBSET IncludePatterns, exc \in SUBSET ExcludePatterns :
          /\ Cardinality(inc) <= MaxPatterns
          /\ Cardinality(exc) <= MaxPatterns
          /\ cfg = [DefaultCfg EXCEPT !.Include = inc, !.Exclude = exc]
    /\ Collections = <<>>
    /\ Routes = <<>>
    /\ docs = <<>>
    /\ drop = NilDrop
    /\ renderer = NilManager
    /\ renderOnce = "fresh"
    /\ initErr = NoErr
    /\ newCount = 0
    /\ hookRuns = 0
    /\ invoked = <<>>
    /\ pc = <<>>
    /\ observed = <<>>
    /\ env = NoEnv
    /\ call = NoCall

CallExclude ==
    \E p \in ExcludePaths :
        /\ call' = [op |-> "Exclude", arg |-> p, ret |-> Exclude(p)]
        /\ UNCHANGED <<Collections, Routes, docs, cfg, drop, renderer, renderOnce, initErr,
                       newCount, hookRuns, invoked, pc, observed, env>>

NextExclude == CallExclude

SpecExclude == InitExclude /\ [][NextExclude]_vars

(***************************************************************************)
(* The exclusion claims, stated on the path's elements.                    *)
(***************************************************************************)
\* the path made of the first k elements of p
Level(p, k) == JoinElements(SubSeq(Elements(p), 1, k))
Depth(p) == Len(Elements(p))

\* the junk-file names: a leading # or ~, a hidden dot-prefixed name, a trailing ~
IsJunkName(n) ==
    \/ SubSeq(n, 1, 1) = "#"
    \/ SubSeq(n, 1, 1) = "~"
    \/ SubSeq(n, 1, 1) = "." /\ Len(n) > 1
    \/ SubSeq(n, Len(n), Len(n)) = "~"

IsUnderscoreName(n) == SubSeq(n, 1, 1) = "_"

Included(p) == \E pat \in cfg.Include : Match(pat, p)
Excluded(p) == \E pat \in cfg.Exclude : Match(pat, p)

\* no include pattern matches p or an ancestor of p down to level k
NoIncludeFrom(p, k) == \A j \in k..Depth(p) : ~Included(Level(p, j))

ExcludeCalled == call.op = "Exclude"

\* C3: a path that matches an include pattern is not excluded, whatever else
\* it matches.
C3_IncludeWins ==
    ExcludeCalled /\ Included(call.arg) => call.ret = FALSE

C3_Witness ==
    /\ ExcludeCalled
    /\ Included(call.arg)
    /\ Excluded(call.arg)
    /\ call.ret = FALSE

\* C4 as stated: a path with a junk-file element at any depth is excluded.
C4_JunkAlwaysExcluded ==
    ExcludeCalled /\ (\E k \in 1..Depth(call.arg) : IsJunkName(Elements(call.arg)[k]))
        => call.ret = TRUE

\* C4 amended: a path with a junk-file element at any depth is excluded,
\* unless an include pattern matches the path or one of its ancestors down
\* to that element.
C4_JunkExcludedUnlessIncluded ==
    ExcludeCalled =>
        \A k \in 1..Depth(call.arg) :
            IsJunkName(Elements(call.arg)[k]) /\ NoIncludeFrom(call.arg, k)
                => call.ret = TRUE

C4_Witness ==
    /\ ExcludeCalled
    /\ Depth(call.arg) >= 3
    /\ IsJunkName(Elements(call.arg)[2])
    /\ ~IsJunkName(Elements(call.arg)[3])
    /\ NoIncludeFrom(call.arg, 2)
    /\ ~Excluded(call.arg)
    /\ call.ret = TRUE

\* C5: a top-level underscore entry that matches no exclude pattern and no
\* junk-file pattern is not excluded; a path with an underscore element whose
\* parent is not the root is excluded when no include pattern matches at or
\* below that element.
C5_UnderscoreBelowTopOnly ==
    ExcludeCalled =>
        /\ ( /\ Depth(call.arg) = 1
             /\ IsUnderscoreName(call.arg)
             /\ ~Excluded(call.arg)
             /\ ~IsJunkName(call.arg) ) => call.ret = FALSE
        /\ \A k \in 2..Depth(call.arg) :
               IsUnderscoreName(Elements(call.arg)[k]) /\ NoIncludeFrom(call.arg, k)
                   => call.ret = TRUE

C5_Witness ==
    /\ ExcludeCalled
    /\ call.arg = "sub/_drafts"
    /\ ~Excluded("sub") /\ ~Excluded("sub/_drafts")
    /\ call.ret = TRUE

(***************************************************************************)
(* The loaded site: Documents, the flat Document list and Routes.          *)
(***************************************************************************)
\* The candidate files of a source tree. rel is the file's path below the
\* source directory ("" for a synthetic document); theme marks a file of the
\* theme directory, whose path is absolute; page tells a Page from a static
\* file; output tells whether the Document is written to the destination.
ThemeFile == "/t/c.css"
Files ==
    { [id |-> 1, rel |-> "b/index.md",  theme |-> FALSE, url |-> "/b/index.html", page |-> TRUE,  output |-> TRUE],
      [id |-> 2, rel |-> "b.md",        theme |-> FALSE, url |-> "/b.html",       page |-> TRUE,  output |-> TRUE],
      [id |-> 3, rel |-> "c.md",        theme |-> FALSE, url |-> "/b",            page |-> TRUE,  output |-> TRUE],
      [id |-> 4, rel |-> "b/index.htm", theme |-> FALSE, url |-> "/b/index.htm",  page |-> FALSE, output |-> TRUE],
      [id |-> 5, rel |-> "",            theme |-> FALSE, url |-> "/feed.xml",     page |-> TRUE,  output |-> TRUE],
      [id |-> 6, rel |-> "_drafts/x.md", theme |-> FALSE, url |-> "/x.html",      page |-> TRUE,  output |-> FALSE],
      [id |-> 7, rel |-> ThemeFile,     theme |-> TRUE,  url |-> "/c.css",        page |-> FALSE, output |-> TRUE],
      [id |-> 8, rel |-> "a/b.md",      theme |-> FALSE, url |-> "/a/b.html",     page |-> TRUE,  output |-> TRUE],
      [id |-> 9, rel |-> "b.html",      theme |-> FALSE, url |-> "/b.html",       page |-> FALSE, output |-> TRUE] }

\* pages.Document: Source(), URL(), and whether it is a pages.Page
NilDoc == [id |-> 0, source |-> "", url |-> "", page |-> FALSE]

NewDocument(f, sourceDir) ==
    [id     |-> f.id,
     source |-> IF f.rel = "" THEN "" ELSE IF f.theme THEN f.rel ELSE Join(sourceDir, f.rel),
     url    |-> f.url,
     page   |-> f.page]

RECURSIVE SortedById(_)
SortedById(fs) ==
    IF fs = {} THEN <<>>
    ELSE LET f == CHOOSE x \in fs : \A y \in fs : x.id <= y.id
         IN  <<f>> \o SortedById(fs \ {f})

\* the URL -> Document table of the output documents; of two documents with
\* one URL the later registered replaces the earlier
RoutesOf(fseq, sourceDir) ==
    LET out  == {i \in 1..Len(fseq) : fseq[i].output}
        urls == {fseq[i].url : i \in out}
        last(u) == CHOOSE i \in out : fseq[i].url = u /\ \A j \in out : fseq[j].url = u => j <= i
    IN  [u \in urls |-> NewDocument(fseq[last(u)], sourceDir)]

\* the collections of the site: the drafts, and the pages outside of them
DraftsDir == "_drafts/"
IsDraft(f) ==
    Len(f.rel) >= Len(DraftsDir) /\ SubSeq(f.rel, 1, Len(DraftsDir)) = DraftsDir
CollectionsOf(fs, sourceDir) ==
    <<[Name |-> "drafts",
       docs |-> {NewDocument(f, sourceDir) : f \in {x \in fs : IsDraft(x)}}],
      [Name |-> "pages",
       docs |-> {NewDocument(f, sourceDir) : f \in {x \in fs : x.page /\ ~IsDraft(x)}}]>>

InitSite ==
    \E fs \in SUBSET Files, src \in SourceDirs :
        /\ Cardinality(fs) <= MaxDocs
        /\ cfg = [DefaultCfg EXCEPT !.Source = src]
        /\ docs = [i \in 1..Cardinality(fs) |-> NewDocument(SortedById(fs)[i], src)]
        /\ Routes = RoutesOf(SortedById(fs), src)
        /\ Collections = CollectionsOf(fs, src)

\* Site.SourceDir
SourceDir == cfg.Source

\* Site.Pages: the documents that are pages, output or not
Pages == SelectSeq(docs, LAMBDA d : d.page)

(***************************************************************************)
(* Routing resolution.                                                     *)
(***************************************************************************)
\* p, found = s.Routes[key]
RoutesLookup(key) ==
    IF key \in DOMAIN Routes THEN [p |-> Routes[key], found |-> TRUE]
    ELSE [p |-> NilDoc, found |-> FALSE]

\* a plausible slip: the .html candidate is tried before the directory indexes
URLPageSuffixFirst(urlpath) ==
    LET r1 == RoutesLookup(urlpath)
        r2 == IF ~r1.found THEN RoutesLookup(Join1(urlpath \o ".html")) ELSE r1
        r3 == IF ~r2.found THEN RoutesLookup(Join(urlpath, "index.html")) ELSE r2
        r4 == IF ~r3.found THEN RoutesLookup(Join(urlpath, "index.htm")) ELSE r3
    IN  r4

\* Site.URLPage
URLPage(urlpath) ==
    LET r1 == RoutesLookup(urlpath)
        r2 == IF ~r1.found THEN RoutesLookup(Join(urlpath, "index.html")) ELSE r1
        r3 == IF ~r2.found THEN RoutesLookup(Join(urlpath, "index.htm")) ELSE r2
        r4 == IF ~r3.found THEN RoutesLookup(Join1(urlpath \o ".html")) ELSE r3
    IN  r4

\* a plausible slip: the document's source path is compared as it is, not
\* made relative to the source directory
FilePathPageNoRel(rel) ==
    LET hits == {u \in DOMAIN Routes : Routes[u].source # "" /\ Routes[u].source = rel}
    IN  IF hits = {} THEN {[p |-> NilDoc, found |-> FALSE]}
        ELSE {[p |-> Routes[u], found |-> TRUE] : u \in hits}

\* Site.FilePathPage: what the scan of Routes can return. A Go map is ranged
\* over in an unspecified order, so with several matching documents any of
\* them may be the one returned.
FilePathPage(rel) ==
    LET hits == {u \in DOMAIN Routes :
                    /\ Routes[u].source # ""
                    /\ LET r == Rel(SourceDir, Routes[u].source)
                       IN  r # RelErr /\ r = rel}
    IN  IF hits = {} THEN {[p |-> NilDoc, found |-> FALSE]}
        ELSE {[p |-> Routes[u], found |-> TRUE] : u \in hits}

\* Site.FilenameURLPath: what it can return
FilenameURLPath(relpath) ==
    {IF r.found THEN [url |-> r.p.url, found |-> TRUE] ELSE [url |-> "", found |-> FALSE] :
        r \in FilePathPage(relpath)}

\* Site.FilenameURLs: the map filled page by page, a later page replacing an
\* earlier one under the same key; MustRel panics when Rel fails
FilenameURLsPanic == [panic |-> TRUE, urls |-> <<>>]
RECURSIVE FilenameURLsFrom(_, _, _)
FilenameURLsFrom(ps, i, urls) ==
    IF i > Len(ps) THEN [panic |-> FALSE, urls |-> urls]
    ELSE LET key == MustRel(SourceDir, ps[i].source) IN
         IF key = MustRelPanic THEN FilenameURLsPanic
         ELSE FilenameURLsFrom(ps, i + 1,
                  [k \in DOMAIN urls \cup {key} |-> IF k = key THEN ps[i].url ELSE urls[k]])

FilenameURLs == FilenameURLsFrom(Pages, 1, <<>>)

\* the inputs of the queries
URLQueries == {"/b", "/b/", "/b.html", "/a//b", "/a/b", ""}
RelQueries == {"b.md", "b/index.htm", "_drafts/x.md", "../t/c.css", "/s/b.md"}

InitRest ==
    /\ drop = NilDrop
    /\ renderer = NilManager
    /\ renderOnce = "fresh"
    /\ initErr = NoErr
    /\ newCount = 0
    /\ hookRuns = 0
    /\ invoked = <<>>
    /\ pc = <<>>
    /\ observed = <<>>
    /\ env = NoEnv
    /\ call = NoCall

InitRoutes == InitSite /\ InitRest

CallURLPage ==
    \E u \in URLQueries :
        /\ call' = [op |-> "URLPage", arg |-> u, ret |-> URLPage(u)]
        /\ UNCHANGED <<Collections, Routes, docs, cfg, drop, renderer, renderOnce, initErr,
                       newCount, hookRuns, invoked, pc, observed, env>>

CallFilePathPage ==
    \E rel \in RelQueries : \E r \in FilePathPage(rel) :
        /\ call' = [op |-> "FilePathPage", arg |-> rel, ret |-> r]
        /\ UNCHANGED <<Collections, Routes, docs, cfg, drop, renderer, renderOnce, initErr,
                       newCount, hookRuns, invoked, pc, observed, env>>

CallFilenameURLPath ==
    \E rel \in RelQueries : \E r \in FilenameURLPath(rel) :
        /\ call' = [op |-> "FilenameURLPath", arg |-> rel, ret |-> r]
        /\ UNCHANGED <<Collections, Routes, docs, cfg, drop, renderer, renderOnce, initErr,
                       newCount, hookRuns, invoked, pc, observed, env>>

CallFilenameURLs ==
    /\ call' = [op |-> "FilenameURLs", arg |-> "", ret |-> FilenameURLs]
    /\ UNCHANGED <<Collections, Routes, docs, cfg, drop, renderer, renderOnce, initErr,
                   newCount, hookRuns, invoked, pc, observed, env>>

NextRoutes ==
    \/ CallURLPage
    \/ CallFilePathPage
    \/ CallFilenameURLPath
    \/ CallFilenameURLs

SpecRoutes == InitRoutes /\ [][NextRoutes]_vars

(***************************************************************************)
(* The routing claims.                                                     *)
(***************************************************************************)
\* the Document under the first of the candidate keys present in Routes
FirstPresent(keys) ==
    LET present == {i \in 1..Len(keys) : keys[i] \in DOMAIN Routes}
    IN  IF present = {} THEN [p |-> NilDoc, found |-> FALSE]
        ELSE LET i == CHOOSE x \in present : \A y \in present : x <= y
             IN  [p |-> Routes[keys[i]], found |-> TRUE]

FileOf(d) == CHOOSE f \in Files : f.id = d.id

\* the Document's path relative to the source directory, NoRelPath if it has none
NoRelPath == "<no relative path>"
RelativeSource(d) ==
    IF d.source = "" THEN NoRelPath
    ELSE IF FileOf(d).theme
         THEN (IF Rel(SourceDir, d.source) = RelErr THEN NoRelPath ELSE Rel(SourceDir, d.source))
    ELSE FileOf(d).rel

\* C6: FilePathPage, given the source-relative path of a Document of Routes
\* with a non-empty source path, returns that Document; given a path that is
\* the relative source path of no Document of Routes, it returns not found.
C6_FilePathPageRoundTrip ==
    call.op = "FilePathPage" =>
        /\ \A u \in DOMAIN Routes :
               Routes[u].source # "" /\ RelativeSource(Routes[u]) = call.arg
                   => call.ret.found /\ call.ret.p = Routes[u]
        /\ (\A u \in DOMAIN Routes : RelativeSource(Routes[u]) # call.arg)
               => ~call.ret.found

C6_Witness ==
    /\ call.op = "FilePathPage"
    /\ SourceDir = "/s"
    /\ Cardinality(DOMAIN Routes) >= 2
    /\ call.arg = "b.md"
    /\ call.ret.found
    /\ call.ret.p.url = "/b.html"

\* C10: FilenameURLs() holds the entry r -> u exactly when FilenameURLPath(r)
\* returns (u, true).
C10_SameScan ==
    call.op = "FilenameURLs" =>
        /\ ~call.ret.panic
        /\ \A r \in RelQueries \cup DOMAIN call.ret.urls :
               \A res \in FilenameURLPath(r) :
                   IF res.found
                   THEN r \in DOMAIN call.ret.urls /\ call.ret.urls[r] = res.url
                   ELSE r \notin DOMAIN call.ret.urls

(***************************************************************************)
(* Plugin hook dispatcher.                                                 *)
(***************************************************************************)
\* the process-wide registry: the names plugins.Lookup resolves
PluginNames == {"jekyll-feed", "jekyll-seo-tag", "jekyll-unknown"}
Registered == {"jekyll-feed", "jekyll-seo-tag"}

\* plugins.Lookup: whether the name resolves
Lookup(name) == name \in Registered

\* The callback h is given by the positions of cfg.Plugins at which it
\* returns an error; the error returned at position i is i itself.
HookErr(i) == i

\* a plausible slip: the loop goes on after a failing callback and the last
\* error is returned
RECURSIVE runHooksKeepGoing(_, _, _, _)
runHooksKeepGoing(fails, i, inv, err) ==
    IF i > Len(cfg.Plugins) THEN [err |-> err, invoked |-> inv]
    ELSE IF Lookup(cfg.Plugins[i])
         THEN runHooksKeepGoing(fails, i + 1, Append(inv, i),
                                IF i \in fails THEN HookErr(i) ELSE err)
    ELSE runHooksKeepGoing(fails, i + 1, inv, err)

runHooksLastError(fails) == runHooksKeepGoing(fails, 1, <<>>, NoErr)

\* the loop of Site.runHooks from position i on; inv lists the positions
\* whose callback was invoked so far
RECURSIVE runHooksFrom(_, _, _)
runHooksFrom(fails, i, inv) ==
    IF i > Len(cfg.Plugins) THEN [err |-> NoErr, invoked |-> inv]
    ELSE IF Lookup(cfg.Plugins[i])
         THEN IF i \in fails THEN [err |-> HookErr(i), invoked |-> Append(inv, i)]
              ELSE runHooksFrom(fails, i + 1, Append(inv, i))
    ELSE runHooksFrom(fails, i + 1, inv)

\* Site.runHooks
runHooks(fails) == runHooksFrom(fails, 1, <<>>)

\* the sequences over S of length at most n
SeqsUpTo(S, n) == UNION {[1..k -> S] : k \in 0..n}

InitHooks ==
    /\ \E ps \in SeqsUpTo(PluginNames, MaxPlugins), fails \in SUBSET (1..MaxPlugins) :
          /\ fails \subseteq 1..Len(ps)
          /\ cfg = [DefaultCfg EXCEPT !.Plugins = ps]
          /\ env = [newFails |-> FALSE, hookFails |-> fails]
    /\ Collections = <<>>
    /\ Routes = <<>>
    /\ docs = <<>>
    /\ drop = NilDrop
    /\ renderer = NilManager
    /\ renderOnce = "fresh"
    /\ initErr = NoErr
    /\ newCount = 0
    /\ hookRuns = 0
    /\ invoked = <<>>
    /\ pc = <<>>
    /\ observed = <<>>
    /\ call = NoCall

CallRunHooks ==
    /\ LET r == runHooks(env.hookFails) IN
          /\ call' = [op |-> "runHooks", arg |-> env.hookFails, ret |-> r.err]
          /\ invoked' = r.invoked
    /\ UNCHANGED <<Collections, Routes, docs, cfg, drop, renderer, renderOnce, initErr,
                   newCount, hookRuns, pc, observed, env>>

NextHooks == CallRunHooks

SpecHooks == InitHooks /\ [][NextHooks]_vars

(***************************************************************************)
(* The hook dispatcher claim.                                              *)
(***************************************************************************)
\* the positions of the configured names that resolve in the registry
Resolving == {i \in 1..Len(cfg.Plugins) : cfg.Plugins[i] \in Registered}
\* the positions at which a resolving plugin's callback returns an error
Failing == Resolving \cap env.hookFails
FirstFailing == CHOOSE i \in Failing : \A j \in Failing : i <= j

\* C7: runHooks visits the configured names in order, invokes the callback
\* once for each name that resolves and skips the others; it stops at the
\* first callback that returns an error and returns that error; it returns
\* no error exactly when every invoked callback succeeded.
C7_RunHooksStopsAtFirstError ==
    call.op = "runHooks" =>
        /\ \A k \in 1..Len(invoked) : \A l \in 1..Len(invoked) :
               k < l => invoked[k] < invoked[l]
        /\ {invoked[k] : k \in 1..Len(invoked)} =
               {i \in Resolving : Failing = {} \/ i <= FirstFailing}
        /\ call.ret = (IF Failing = {} THEN NoErr ELSE HookErr(FirstFailing))
        /\ (call.ret = NoErr) <=>
               (\A k \in 1..Len(invoked) : invoked[k] \notin env.hookFails)

C7_Witness ==
    /\ call.op = "runHooks"
    /\ Len(cfg.Plugins) = 3
    /\ cfg.Plugins[1] = "jekyll-unknown"
    /\ env.hookFails = {1, 2}
    /\ invoked = <<2>>
    /\ call.ret = HookErr(2)
    /\ cfg.Plugins[3] \in Registered

(***************************************************************************)
(* Lazy initialization of the rendering manager.                           *)
(*                                                                         *)
(* initializeRenderers is two steps of the one caller the gate lets in:    *)
(* the construction (renderers.New, assigned to s.renderer) and the        *)
(* dispatch of the ConfigureTemplateEngine hooks. RendererManager may be   *)
(* called by anyone at any time.                                           *)
(***************************************************************************)
Callers == 1..NumCallers
NewErr == -1

\* renderers.New: a fresh manager, or no manager and an error
renderersNew ==
    IF env.newFails THEN [mgr |-> NilManager, err |-> NewErr]
    ELSE [mgr |-> newCount + 1, err |-> NoErr]

\* the gate's broadcast: the caller returns with the manager and the error
\* the one initialization ended with
Return(c, mgr, err) ==
    /\ pc' = [pc EXCEPT ![c] = "returned"]
    /\ observed' = [observed EXCEPT ![c] = [mgr |-> mgr, err |-> err]]

\* a caller asks for the initialized manager: renderOnce.Do lets the first
\* caller in, blocks the callers that arrive while it runs, and lets the
\* callers that arrive after it pass with the stored result
Enter(c) ==
    /\ pc[c] \in {"idle", "returned"}
    /\ \/ /\ renderOnce = "fresh"
          /\ renderOnce' = "running"
          /\ pc' = [pc EXCEPT ![c] = "new"]
          /\ UNCHANGED observed
       \/ /\ renderOnce = "running"
          /\ pc' = [pc EXCEPT ![c] = "blocked"]
          /\ UNCHANGED <<renderOnce, observed>>
       \/ /\ renderOnce = "done"
          /\ Return(c, renderer, initErr)
          /\ UNCHANGED renderOnce
    /\ UNCHANGED <<Collections, Routes, docs, cfg, drop, renderer, initErr, newCount,
                   hookRuns, invoked, env, call>>

\* a blocked caller is released when the initialization has ended
Release(c) ==
    /\ pc[c] = "blocked"
    /\ renderOnce = "done"
    /\ Return(c, renderer, initErr)
    /\ UNCHANGED <<Collections, Routes, docs, cfg, drop, renderer, renderOnce, initErr,
                   newCount, hookRuns, invoked, env, call>>

\* initializeRenderers, first half: s.renderer, err = renderers.New(...);
\* on an error the initialization ends with it
InitNew(c) ==
    /\ pc[c] = "new"
    /\ renderer' = renderersNew.mgr
    /\ newCount' = newCount + 1
    /\ IF renderersNew.err # NoErr
       THEN /\ initErr' = renderersNew.err
            /\ renderOnce' = "done"
            /\ Return(c, renderersNew.mgr, renderersNew.err)
       ELSE /\ pc' = [pc EXCEPT ![c] = "hooks"]
            /\ UNCHANGED <<initErr, renderOnce, observed>>
    /\ UNCHANGED <<Collections, Routes, docs, cfg, drop, hookRuns, invoked, env, call>>

\* a plausible slip: the error of the hooks is dropped
InitConfigureIgnoringError(c) ==
    /\ pc[c] = "hooks"
    /\ LET r == runHooks(env.hookFails) IN
          /\ invoked' = r.invoked
          /\ initErr' = NoErr
          /\ Return(c, renderer, NoErr)
    /\ hookRuns' = hookRuns + 1
    /\ renderOnce' = "done"
    /\ UNCHANGED <<Collections, Routes, docs, cfg, drop, renderer, newCount, env, call>>

\* initializeRenderers, second half: return s.runHooks(ConfigureTemplateEngine)
InitConfigure(c) ==
    /\ pc[c] = "hooks"
    /\ LET r == runHooks(env.hookFails) IN
          /\ invoked' = r.invoked
          /\ initErr' = r.err
          /\ Return(c, renderer, r.err)
    /\ hookRuns' = hookRuns + 1
    /\ renderOnce' = "done"
    /\ UNCHANGED <<Collections, Routes, docs, cfg, drop, renderer, newCount, env, call>>

\* where the initialization stands
Phase ==
    IF renderOnce = "fresh" THEN "never started"
    ELSE IF renderOnce = "running" THEN "in progress"
    ELSE IF initErr = NoErr THEN "ready"
    ELSE IF initErr = NewErr THEN "construction failed"
    ELSE "hook failed"

\* Site.RendererManager: a panic when s.renderer is nil, s.renderer otherwise.
\* The call records the phase it was made in.
RendererManager ==
    IF renderer = NilManager THEN [panic |-> TRUE, mgr |-> NilManager]
    ELSE [panic |-> FALSE, mgr |-> renderer]

CallRendererManager ==
    /\ call' = [op |-> "RendererManager", arg |-> Phase, ret |-> RendererManager]
    /\ UNCHANGED <<Collections, Routes, docs, cfg, drop, renderer, renderOnce, initErr,
                   newCount, hookRuns, invoked, pc, observed, env>>

InitRender ==
    /\ \E ps \in SeqsUpTo(PluginNames, MaxInitPlugins),
          fails \in SUBSET (1..MaxInitPlugins), nf \in BOOLEAN :
          /\ fails \subseteq 1..Len(ps)
          /\ cfg = [DefaultCfg EXCEPT !.Plugins = ps]
          /\ env = [newFails |-> nf, hookFails |-> fails]
    /\ Collections = <<>>
    /\ Routes = <<>>
    /\ docs = <<>>
    /\ drop = NilDrop
    /\ renderer = NilManager
    /\ renderOnce = "fresh"
    /\ initErr = NoErr
    /\ newCount = 0
    /\ hookRuns = 0
    /\ invoked = <<>>
    /\ pc = [c \in Callers |-> "idle"]
    /\ observed = [c \in Callers |-> [mgr |-> NilManager, err |-> NoErr]]
    /\ call = NoCall

NextRender ==
    \/ \E c \in Callers : Enter(c)
    \/ \E c \in Callers : Release(c)
    \/ \E c \in Callers : InitNew(c)
    \/ \E c \in Callers : InitConfigure(c)
    \/ CallRendererManager

SpecRender == InitRender /\ [][NextRender]_vars

(***************************************************************************)
(* The initialization claims.                                              *)
(***************************************************************************)
\* the error the construction-and-hook sequence ends with, from the
\* collaborators' behaviour
ExpectedInitErr ==
    IF env.newFails THEN NewErr
    ELSE IF Failing = {} THEN NoErr
    ELSE HookErr(FirstFailing)

C8_FatalUnlessInitialized ==
    /\ call.op = "RendererManager"
    /\ call.arg \in {"never started", "construction failed", "hook failed"}
    => call.ret.panic

(***************************************************************************)
(* The cached drop and SetAbsoluteURL.                                     *)
(***************************************************************************)
AbsoluteURLs == {"http://localhost:4000", "https://example.com"}

\* m with m[k] = v, as a Go map assignment: the key is added when absent
MapSet(m, k, v) == [x \in DOMAIN m \cup {k} |-> IF x = k THEN v ELSE m[x]]

\* the drop is built once, on first use, from the configuration's variables
\* and the site's own entries
ToLiquid ==
    /\ ~drop.cached
    /\ drop' = [cached |-> TRUE,
                dict   |-> MapSet(cfg.Variables, "documents", Len(docs))]
    /\ call' = [op |-> "ToLiquid", arg |-> ""]
    /\ UNCHANGED <<Collections, Routes, docs, cfg, renderer, renderOnce, initErr,
                   newCount, hookRuns, invoked, pc, observed, env>>

\* a plausible slip: the cached drop is left as it was
SetAbsoluteURLConfigOnly(url) ==
    /\ cfg' = [cfg EXCEPT !.AbsoluteURL = url,
                          !.Variables = MapSet(cfg.Variables, "url", url)]
    /\ drop' = drop
    /\ call' = [op |-> "SetAbsoluteURL", arg |-> url]
    /\ UNCHANGED <<Collections, Routes, docs, renderer, renderOnce, initErr,
                   newCount, hookRuns, invoked, pc, observed, env>>

\* Site.SetAbsoluteURL
SetAbsoluteURL(url) ==
    /\ cfg' = [cfg EXCEPT !.AbsoluteURL = url,
                          !.Variables = MapSet(cfg.Variables, "url", url)]
    /\ drop' = IF drop.cached
               THEN [drop EXCEPT !.dict = MapSet(drop.dict, "url", url)]
               ELSE drop
    /\ call' = [op |-> "SetAbsoluteURL", arg |-> url]
    /\ UNCHANGED <<Collections, Routes, docs, renderer, renderOnce, initErr,
                   newCount, hookRuns, invoked, pc, observed, env>>

InitDrop ==
    /\ \E fs \in SUBSET Files, src \in SourceDirs, keys \in SUBSET VariableKeys :
          /\ Cardinality(fs) <= MaxDocs
          /\ cfg = [DefaultCfg EXCEPT
                        !.Source = src,
                        !.Variables = [k \in keys |-> DefaultCfg.Variables[k]]]
          /\ docs = [i \in 1..Cardinality(fs) |-> NewDocument(SortedById(fs)[i], src)]
          /\ Routes = RoutesOf(SortedById(fs), src)
          /\ Collections = CollectionsOf(fs, src)
    /\ InitRest

NextDrop ==
    \/ ToLiquid
    \/ \E url \in AbsoluteURLs : SetAbsoluteURL(url)

SpecDrop == InitDrop /\ [][NextDrop]_vars

(***************************************************************************)
(* The SetAbsoluteURL claim.                                               *)
(***************************************************************************)
\* C9: a step of SetAbsoluteURL(u) sets the configuration's absolute URL and
\* its url variable to u; a cached drop gets url = u and keeps every other
\* entry; a drop not yet cached stays uncached; Routes, the Document list
\* and the Collections are unchanged.
C9_SetAbsoluteURLFrame ==
    [][call'.op = "SetAbsoluteURL" =>
          /\ cfg'.AbsoluteURL = call'.arg
          /\ cfg'.Variables["url"] = call'.arg
          /\ drop.cached =>
                /\ drop'.cached
                /\ DOMAIN drop'.dict = DOMAIN drop.dict \cup {"url"}
                /\ drop'.dict["url"] = call'.arg
                /\ \A k \in DOMAIN drop.dict \ {"url"} : drop'.dict[k] = drop.dict[k]
          /\ ~drop.cached => drop' = drop
          /\ Routes' = Routes
          /\ docs' = docs
          /\ Collections' = Collections]_vars

C9_Witness ==
    /\ call.op = "SetAbsoluteURL"
    /\ drop.cached
    /\ drop.dict["url"] = call.arg
    /\ cfg.AbsoluteURL = call.arg
    /\ "title" \in DOMAIN drop.dict
    /\ DOMAIN Routes # {}

====
